---- MODULE Spec2Model ----
(***************************************************************************)
(* Aurornis: run a command, capture its outcome in a CommandResult.        *)
(* Text is a sequence of code points, a byte string a sequence of bytes,   *)
(* a dict a function whose DOMAIN is its key set.                          *)
(***************************************************************************)
EXTENDS Integers, Sequences, FiniteSets, TLC

VARIABLES
    environ,            \* os.environ of the calling process
    platform,           \* sys.platform
    user_environment,   \* the `environment` argument (None or a dict)
    remove_colors,      \* the `remove_colors` argument
    exec_env,           \* value returned by _get_execution_environment
    from_text,          \* argument of _remove_colors
    new_str,            \* value returned by _remove_colors
    spc                 \* caller of _remove_colors: pieces inserted so far,
                        \* -1 once _remove_colors has returned

VARIABLES
    lists,              \* the caller's list objects, by identity
    result,             \* the CommandResult held by the caller, or NoResult
    raised,             \* the exception run raised, or None
    first,              \* what the accessors returned when run returned
    child,              \* what happened outside: spawn, exit code, output, clock
    normalize_carriage_return,  \* the `normalize_carriage_return` argument
    pc                  \* caller: "idle", "returned" or "raised"

VARIABLES
    stdin,              \* the `stdin` argument (NoStdin or a list of lines)
    cpc,                \* run: "start", "popen", "select", "waited", "done"
    input_offset,       \* communicate: bytes of `input` written so far
    stdin_open,         \* the engine's end of the child's stdin is open
    registered,         \* output streams communicate is still reading
    captured,           \* bytes communicate has read from each output
    returncode,         \* process.returncode: <<>> for None, else <<code>>
    pipes,              \* bytes in flight in the pipes "in", "out", "err"
    prog,               \* the child's program: a sequence of "o", "e", "i"
    cpos,               \* the child's next instruction
    child_state,        \* "none", "running" or "exited"
    child_read,         \* bytes the child has read from its stdin
    child_eof           \* the child has observed end-of-input

envVars == <<environ, platform, user_environment, remove_colors, exec_env>>
stripVars == <<from_text, new_str, spc>>
runVars == <<lists, result, raised, first, child, normalize_carriage_return, pc>>
commVars == <<stdin, cpc, input_offset, stdin_open, registered, captured,
              returncode, pipes, prog, cpos, child_state, child_read, child_eof>>
vars == <<envVars, stripVars, runVars, commVars>>

\* None, where a str is expected (dict.get on a missing key)
None == "<None>"
\* None, where a dict is expected (the default of `environment`)
NoDict == [x \in {"<None>"} |-> "<None>"]

\* ---------------------------------------------------------------- text ----
UNIX_ESC_CHAR == 27
WINDOWS_ESC_CHAR == 27
LBRACKET == 91
SEMICOLON == 59
LOWER_M == 109
DIGIT_ZERO == 48
CR == 13
LF == 10
\* a character that belongs to no sequence
PlainText == <<97>>

\* str.replace(old, new): one left-to-right pass over non-overlapping
\* occurrences; the text produced by a replacement is not scanned again.
RECURSIVE Replace(_, _, _)
Replace(s, old, new) ==
    IF Len(s) < Len(old) THEN s
    ELSE IF SubSeq(s, 1, Len(old)) = old
         THEN new \o Replace(SubSeq(s, Len(old) + 1, Len(s)), old, new)
         ELSE <<Head(s)>> \o Replace(Tail(s), old, new)

\* f"{escape_char}[{mode};{ten}{unit}m"
ColorSeq(escape_char, mode, ten, unit) ==
    <<escape_char, LBRACKET, DIGIT_ZERO + mode, SEMICOLON,
      DIGIT_ZERO + ten, DIGIT_ZERO + unit, LOWER_M>>

\* f"{escape_char}[0m"
ResetSeq(escape_char) == <<escape_char, LBRACKET, DIGIT_ZERO, LOWER_M>>

NbModes == 6
NbUnits == 8
Tens == <<3, 4>>

\* The value of a loop variable after one more iteration.  The test on the
\* length evaluates the new text before the next iteration starts.
\* for unit in range(0, 8): new_str = new_str.replace(seq, "")
RECURSIVE RemoveUnits(_, _, _, _, _)
RemoveUnits(s, escape_char, mode, ten, unit) ==
    IF unit >= NbUnits THEN s
    ELSE LET r == Replace(s, ColorSeq(escape_char, mode, ten, unit), <<>>)
         IN  IF Len(r) >= 0
             THEN RemoveUnits(r, escape_char, mode, ten, unit + 1)
             ELSE r

\* for ten in [3, 4]
RECURSIVE RemoveTens(_, _, _, _)
RemoveTens(s, escape_char, mode, t) ==
    IF t > Len(Tens) THEN s
    ELSE LET r == RemoveUnits(s, escape_char, mode, Tens[t], 0)
         IN  IF Len(r) >= 0
             THEN RemoveTens(r, escape_char, mode, t + 1)
             ELSE r

\* for mode in range(6)
RECURSIVE RemoveModes(_, _, _)
RemoveModes(s, escape_char, mode) ==
    IF mode >= NbModes THEN s
    ELSE LET r == RemoveTens(s, escape_char, mode, 1)
         IN  IF Len(r) >= 0
             THEN RemoveModes(r, escape_char, mode + 1)
             ELSE r

\* Body of `for escape_char in [...]`: the colour sequences in the order of
\* the nested loops, then the reset sequence.
RemoveForEscapeChar(s, escape_char) ==
    Replace(RemoveModes(s, escape_char, 0), ResetSeq(escape_char), <<>>)

_remove_colors(text) ==
    RemoveForEscapeChar(RemoveForEscapeChar(text, UNIX_ESC_CHAR),
                        WINDOWS_ESC_CHAR)

\* --------------------------------------------------------- environment ----
Put(d, k, v) == [x \in (DOMAIN d) \cup {k} |-> IF x = k THEN v ELSE d[x]]

\* dict.get(k): None when the key is absent
Get(d, k) == IF k \in DOMAIN d THEN d[k] ELSE None

\* for key in user_environment: exec_env[key] = user_environment[key]
Update(d, u) ==
    [x \in (DOMAIN d) \cup (DOMAIN u) |-> IF x \in DOMAIN u THEN u[x] ELSE d[x]]

\* (the caller's whole environment taken as the base)
_get_execution_environment_Inherit(env, plat, user_env, rm_colors) ==
    LET e0 == Put(env, "LANG", "C")
        e1 == IF plat = "win32"
              THEN Put(e0, "SystemRoot", Get(env, "SystemRoot"))
              ELSE Put(e0, "PATH", Get(env, "PATH"))
        e2 == IF user_env # NoDict THEN Update(e1, user_env) ELSE e1
    IN  IF rm_colors THEN Put(e2, "NO_COLOR", "1") ELSE e2

\* (NO_COLOR set before the user's entries are applied)
_get_execution_environment_UserLast(env, plat, user_env, rm_colors) ==
    LET e0 == [x \in {"LANG"} |-> "C"]
        e1 == IF plat = "win32"
              THEN Put(e0, "SystemRoot", Get(env, "SystemRoot"))
              ELSE Put(e0, "PATH", Get(env, "PATH"))
        e2 == IF rm_colors THEN Put(e1, "NO_COLOR", "1") ELSE e1
    IN  IF user_env # NoDict THEN Update(e2, user_env) ELSE e2

_get_execution_environment(env, plat, user_env, rm_colors) ==
    LET e0 == [x \in {"LANG"} |-> "C"]
        e1 == IF plat = "win32"
              THEN Put(e0, "SystemRoot", Get(env, "SystemRoot"))
              ELSE Put(e0, "PATH", Get(env, "PATH"))
        e2 == IF user_env # NoDict THEN Update(e1, user_env) ELSE e1
    IN  IF rm_colors THEN Put(e2, "NO_COLOR", "1") ELSE e2

\* ------------------------------------------------------ CommandResult ----
NoResult == [none |-> TRUE]

\* (round(a / b) instead of int(a / b))
IntOfQuotient_Round(a, b) == (2 * a + b) \div (2 * b)

\* int(a / b) for b > 0: true division, then truncation toward zero
IntOfQuotient(a, b) == IF a >= 0 THEN a \div b ELSE -((-a) \div b)

\* aurornis/__init__.py: the duration is stored in microseconds
CommandResult(command, return_code, stdout, stderr, exec_time_microseconds) ==
    [_command |-> command,
     _return_code |-> return_code,
     _stdout |-> stdout,
     _stderr |-> stderr,
     _exec_time_microseconds |-> exec_time_microseconds]

\* `command` returns the stored list object; its value is read from the heap
command(r, heap) == heap[r._command]
return_code(r) == r._return_code
stdout(r) == r._stdout
stderr(r) == r._stderr
exec_time_us(r) == r._exec_time_microseconds
exec_time_ms(r) == IntOfQuotient(r._exec_time_microseconds, 1000)
is_successful(r) == return_code(r) = 0

\* aurornis/model.py: the duration is stored in nanoseconds
ModelCommandResult(cmd, rc, out, err, exec_time_nanoseconds) ==
    [_command |-> cmd,
     _return_code |-> rc,
     _stdout |-> out,
     _stderr |-> err,
     _exec_time_nanoseconds |-> exec_time_nanoseconds]

successful(r) == return_code(r) = 0
model_exec_time_ns(r) == r._exec_time_nanoseconds
model_exec_time_us(r) == IntOfQuotient(model_exec_time_ns(r), 1000)
model_exec_time_ms(r) == IntOfQuotient(model_exec_time_us(r), 1000)

\* ---------------------------------------------------------------- run ----
\* None, where a list of str is expected (the default of `stdin`)
NoStdin == << <<-1>> >>
DecodeFailed == <<-1>>

\* bytes.decode(): strict UTF-8, here for code points below 2048 (one- and
\* two-byte forms); any other byte is invalid.
RECURSIVE Utf8Decode(_)
Utf8Decode(b) ==
    IF b = <<>> THEN <<>>
    ELSE IF b[1] < 128
    THEN LET rest == Utf8Decode(Tail(b))
         IN  IF rest = DecodeFailed THEN DecodeFailed ELSE <<b[1]>> \o rest
    ELSE IF b[1] \in 194..223 /\ Len(b) >= 2 /\ b[2] \in 128..191
    THEN LET rest == Utf8Decode(Tail(Tail(b)))
         IN  IF rest = DecodeFailed THEN DecodeFailed
             ELSE <<(b[1] - 192) * 64 + (b[2] - 128)>> \o rest
    ELSE DecodeFailed

\* str.encode("utf-8") for code points below 2048
RECURSIVE Utf8Encode(_)
Utf8Encode(t) ==
    IF t = <<>> THEN <<>>
    ELSE (IF t[1] < 128 THEN <<t[1]>>
          ELSE <<192 + (t[1] \div 64), 128 + (t[1] % 64)>>)
         \o Utf8Encode(Tail(t))

\* "\n".join(lines)
RECURSIVE Join(_)
Join(lines) ==
    IF lines = <<>> THEN <<>>
    ELSE IF Len(lines) = 1 THEN lines[1]
    ELSE lines[1] \o <<LF>> \o Join(Tail(lines))

\* (a line feed after every line, the last one included)
StdinInput_TrailingNewline(lines) ==
    IF lines # NoStdin /\ Len(lines) > 0
    THEN Utf8Encode(Join(lines)) \o <<LF>>
    ELSE <<>>

\* lines 157-160: the bytes handed to communicate, <<>> standing for None
\* (communicate writes nothing and closes stdin for None and for b"" alike)
StdinInput(lines) ==
    IF lines # NoStdin /\ Len(lines) > 0 THEN Utf8Encode(Join(lines)) ELSE <<>>

MICROSECONDS_PER_SECOND == 1000000

\* timedelta.microseconds: the sub-second component of the normalised
\* (days, seconds, microseconds) triple, always in 0..999999
TimedeltaMicroseconds(delta) == delta % MICROSECONDS_PER_SECOND

Executables == {"echo", "env"}

\* subprocess.Popen: the exception it raises, or None when the child starts.
\* argv[0] must name an executable and every value of env must be a str.
PopenError(argv, env) ==
    IF \E k \in DOMAIN env : env[k] = None THEN "TypeError"
    ELSE IF argv[1] \notin Executables THEN "FileNotFoundError"
    ELSE None

\* (every carriage return removed, not only those before a line feed)
Normalize_EveryCR(text, normalize) ==
    IF normalize THEN Replace(text, <<CR>>, <<>>) ELSE text

\* stdout.replace("\r\n", "\n") when normalize_carriage_return
Normalize(text, normalize) ==
    IF normalize THEN Replace(text, <<CR, LF>>, <<LF>>) ELSE text

StripIf(text, rm_colors) == IF rm_colors THEN _remove_colors(text) ELSE text

\* (a spawn failure turned into a result with the shell's "not found" code)
run_FabricatedResult(heap, env, plat, cmd, environment, rm_colors, lines, normalize, w) ==
    LET err == PopenError(heap[cmd],
                 _get_execution_environment(env, plat, environment, rm_colors))
        out1 == Utf8Decode(w.out)
        err1 == Utf8Decode(w.err)
        exec_time == TimedeltaMicroseconds(w.end_time - w.start_time)
    IN  IF err # None
        THEN [raised |-> None,
              result |-> CommandResult(cmd, 127, <<>>, <<>>, exec_time)]
        ELSE IF out1 = DecodeFailed \/ err1 = DecodeFailed
        THEN [raised |-> "UnicodeDecodeError", result |-> NoResult]
        ELSE [raised |-> None,
              result |-> CommandResult(cmd, w.exit_code,
                           StripIf(Normalize(out1, normalize), rm_colors),
                           StripIf(Normalize(err1, normalize), rm_colors),
                           exec_time)]

\* run(command, environment, remove_colors, stdin, normalize_carriage_return)
\* `cmd` is the identity of the caller's list, `heap` the list objects, `w`
\* what the outside world does: the bytes the child writes, its exit code, and
\* the clock readings of the two datetime.now() calls.
run(heap, env, plat, cmd, environment, rm_colors, lines, normalize, w) ==
    LET input == StdinInput(lines)
        err == PopenError(heap[cmd],
                 _get_execution_environment(env, plat, environment, rm_colors))
        out1 == Utf8Decode(w.out)
        err1 == Utf8Decode(w.err)
        out2 == Normalize(out1, normalize)
        err2 == Normalize(err1, normalize)
        exec_time == TimedeltaMicroseconds(w.end_time - w.start_time)
    IN  IF err # None THEN [raised |-> err, result |-> NoResult]
        ELSE IF out1 = DecodeFailed \/ err1 = DecodeFailed
        THEN [raised |-> "UnicodeDecodeError", result |-> NoResult]
        ELSE [raised |-> None,
              result |-> CommandResult(cmd, w.exit_code,
                                       StripIf(out2, rm_colors),
                                       StripIf(err2, rm_colors), exec_time)]

\* ------------------------------------------------------------------------
\* Specification of _get_execution_environment: the inputs are drawn in the
\* initial state, the action applies the function.
CallerKeys == {"PATH", "SystemRoot", "NO_COLOR", "HOME"}
UserKeys == {"PATH", "LANG", "NO_COLOR", "MY_VAR"}
CallerValue(k) == IF k = "NO_COLOR" THEN "0" ELSE "caller:" \o k
UserValues == {"user", "1"}
NotBuilt == [x \in {"<not built>"} |-> "<not built>"]

Environs == {[k \in ks |-> CallerValue(k)] : ks \in SUBSET CallerKeys}
UserEnvironments ==
    {NoDict} \cup UNION {[ks -> UserValues] : ks \in SUBSET UserKeys}

EnvIdle ==
    /\ environ = [k \in {"PATH"} |-> CallerValue(k)]
    /\ platform = "linux"
    /\ user_environment = NoDict
    /\ remove_colors = FALSE
    /\ exec_env = NotBuilt

NoChild == [spawned |-> FALSE, exit_code |-> 0, out |-> <<>>, err |-> <<>>,
            start_time |-> 0, end_time |-> 0]
InitialLists == <<<<"echo", "hi">>, <<"nosuchcommand">>>>
NoReads == <<>>

RunIdle ==
    /\ lists = InitialLists
    /\ result = NoResult
    /\ raised = None
    /\ first = NoReads
    /\ child = NoChild
    /\ normalize_carriage_return = FALSE
    /\ pc = "idle"

NoBytes == [s \in {"in", "out", "err"} |-> <<>>]

CommIdle ==
    /\ stdin = NoStdin
    /\ cpc = "start"
    /\ input_offset = 0
    /\ stdin_open = FALSE
    /\ registered = {}
    /\ captured = NoBytes
    /\ returncode = <<>>
    /\ pipes = NoBytes
    /\ prog = <<>>
    /\ cpos = 1
    /\ child_state = "none"
    /\ child_read = <<>>
    /\ child_eof = FALSE

StripIdle ==
    /\ from_text = <<>>
    /\ new_str = <<>>
    /\ spc = 0

InitEnv ==
    /\ environ \in Environs
    /\ platform \in {"win32", "linux"}
    /\ user_environment \in UserEnvironments
    /\ remove_colors \in BOOLEAN
    /\ exec_env = NotBuilt
    /\ StripIdle
    /\ RunIdle
    /\ CommIdle

BuildEnv ==
    /\ exec_env = NotBuilt
    /\ exec_env' = _get_execution_environment(environ, platform,
                                               user_environment, remove_colors)
    /\ UNCHANGED <<environ, platform, user_environment, remove_colors>>
    /\ UNCHANGED <<stripVars, runVars, commVars>>

NextEnv == BuildEnv

SpecEnv == InitEnv /\ [][NextEnv]_vars

PlatformVar == IF platform = "win32" THEN "SystemRoot" ELSE "PATH"
UserKeySet == IF user_environment = NoDict THEN {} ELSE DOMAIN user_environment
NoColorKey == IF remove_colors THEN {"NO_COLOR"} ELSE {}

\* C1 (as stated): the key set of the built environment is exactly the
\* platform's executable-resolution variable, the user's keys, and NO_COLOR
\* when remove_colors is true.
C1_KeysAsClaimed ==
    exec_env # NotBuilt =>
        DOMAIN exec_env = {PlatformVar} \cup UserKeySet \cup NoColorKey

\* C1 (amended): the key set of the built environment is exactly LANG, the
\* platform's executable-resolution variable, the user's keys, and NO_COLOR
\* when remove_colors is true; no other variable of the caller appears.
C1_KeysExact ==
    exec_env # NotBuilt =>
        DOMAIN exec_env =
            {"LANG", PlatformVar} \cup UserKeySet \cup NoColorKey

\* The caller has variables (HOME, and the other platform's variable) that
\* the user mapping does not name, and the environment has been built.
C1_Witness ==
    /\ exec_env # NotBuilt
    /\ {"HOME", "PATH", "SystemRoot", "NO_COLOR"} \subseteq DOMAIN environ
    /\ platform = "linux"
    /\ user_environment # NoDict
    /\ DOMAIN user_environment = {"MY_VAR"}
    /\ ~remove_colors

\* C7: the built environment is the base entries, overridden by the user
\* mapping, overridden by NO_COLOR='1' when remove_colors is true.
C7_Override ==
    exec_env # NotBuilt =>
        /\ \A k \in UserKeySet \ {"NO_COLOR"} :
              k \in DOMAIN exec_env /\ exec_env[k] = user_environment[k]
        /\ "LANG" \notin UserKeySet => exec_env["LANG"] = "C"
        /\ PlatformVar \notin UserKeySet =>
              exec_env[PlatformVar] = Get(environ, PlatformVar)
        /\ remove_colors => exec_env["NO_COLOR"] = "1"
        /\ ~remove_colors =>
              /\ "NO_COLOR" \in DOMAIN exec_env <=> "NO_COLOR" \in UserKeySet
              /\ "NO_COLOR" \in UserKeySet =>
                    exec_env["NO_COLOR"] = user_environment["NO_COLOR"]

\* The user overrides both base keys and NO_COLOR, the caller has its own
\* NO_COLOR, and remove_colors is set.
C7_Witness ==
    /\ exec_env # NotBuilt
    /\ remove_colors
    /\ "NO_COLOR" \in DOMAIN environ
    /\ {"PATH", "LANG", "NO_COLOR"} \subseteq UserKeySet
    /\ user_environment["NO_COLOR"] = "user"
    /\ exec_env["PATH"] = "user"
    /\ exec_env["LANG"] = "1"

\* ------------------------------------------------------------------------
\* Specification of _remove_colors: the caller assembles a text by inserting
\* pieces (a sequence of the enumerated set, or a plain character) anywhere
\* in the text built so far, then calls _remove_colors on it.
MaxTextLen == 15
MaxInserts == 3

StripPieces ==
    { ResetSeq(UNIX_ESC_CHAR),
      ColorSeq(UNIX_ESC_CHAR, 0, 3, 1),
      ColorSeq(UNIX_ESC_CHAR, 0, 3, 0),
      PlainText }

InsertAt(s, i, piece) == SubSeq(s, 1, i) \o piece \o SubSeq(s, i + 1, Len(s))

InitStrip ==
    /\ from_text = <<>>
    /\ new_str = <<>>
    /\ spc = 0
    /\ EnvIdle
    /\ RunIdle
    /\ CommIdle

InsertPiece ==
    /\ spc \in 0..(MaxInserts - 1)
    /\ \E piece \in StripPieces, i \in 0..Len(from_text) :
          /\ Len(from_text) + Len(piece) <= MaxTextLen
          /\ from_text' = InsertAt(from_text, i, piece)
    /\ spc' = spc + 1
    /\ UNCHANGED new_str
    /\ UNCHANGED <<envVars, runVars, commVars>>

CallRemoveColors ==
    /\ spc \in 0..MaxInserts
    /\ new_str' = _remove_colors(from_text)
    /\ spc' = -1
    /\ UNCHANGED from_text
    /\ UNCHANGED <<envVars, runVars, commVars>>

NextStrip == InsertPiece \/ CallRemoveColors

SpecStrip == InitStrip /\ [][NextStrip]_vars

Stripped == spc = -1

RECURSIVE Contains(_, _)
Contains(s, sub) ==
    IF Len(s) < Len(sub) THEN FALSE
    ELSE SubSeq(s, 1, Len(sub)) = sub \/ Contains(Tail(s), sub)

EnumeratedSeqs ==
    {ColorSeq(UNIX_ESC_CHAR, mode, Tens[t], unit) :
        mode \in 0..(NbModes - 1), t \in 1..Len(Tens), unit \in 0..(NbUnits - 1)}
    \cup {ResetSeq(UNIX_ESC_CHAR)}

HasEnumeratedSeq(s) == \E q \in EnumeratedSeqs : Contains(s, q)

\* C2: _remove_colors is idempotent: stripping its own output changes
\* nothing, and its output contains none of the enumerated sequences.
C2_Idempotent ==
    Stripped =>
        /\ _remove_colors(new_str) = new_str
        /\ ~HasEnumeratedSeq(new_str)

\* ------------------------------------------------------------------------
\* Specification of run and its caller.  The caller owns two list objects
\* and one environment dict, calls run, keeps the CommandResult, and goes on
\* mutating its own objects; it discards the result before the next call.
MaxArgs == 3

ExitCodes == {0, 1, -9}
StartTimes == {750000}
ElapsedTimes == {1, 999999, 1000000, 1250000}
StdoutBytes ==
    { <<>>, <<195, 169, CR, LF>>,
      ResetSeq(UNIX_ESC_CHAR) \o PlainText, <<255>> }
StderrBytes == { PlainText \o <<LF>>, <<255>> }
StdinArgs == { NoStdin, <<PlainText>> }

Worlds(outs, errs) ==
    {[out |-> o, err |-> e, exit_code |-> x,
      start_time |-> t, end_time |-> t + d] :
        o \in outs, e \in errs, x \in ExitCodes,
        t \in StartTimes, d \in ElapsedTimes}

\* every accessor of the CommandResult, read now
Reads(r, heap) ==
    [command |-> command(r, heap),
     return_code |-> return_code(r),
     stdout |-> stdout(r),
     stderr |-> stderr(r),
     exec_time_us |-> exec_time_us(r),
     exec_time_ms |-> exec_time_ms(r),
     is_successful |-> is_successful(r)]

\* c = run(lists[cmd], user_environment, rc, lines, norm) in world w
CallRunIn(cmd, rc, lines, norm, w) ==
    LET env == _get_execution_environment(environ, platform,
                                          user_environment, rc)
        r == run(lists, environ, platform, cmd, user_environment, rc,
                 lines, norm, w)
    IN  /\ remove_colors' = rc
        /\ normalize_carriage_return' = norm
        /\ child' = [spawned |-> PopenError(lists[cmd], env) = None,
                     exit_code |-> w.exit_code, out |-> w.out, err |-> w.err,
                     start_time |-> w.start_time, end_time |-> w.end_time]
        /\ result' = r.result
        /\ raised' = r.raised
        /\ first' = IF r.raised = None THEN Reads(r.result, lists) ELSE NoReads
        /\ pc' = IF r.raised = None THEN "returned" ELSE "raised"
        /\ UNCHANGED <<lists, environ, platform, user_environment, exec_env>>
        /\ UNCHANGED stripVars

CallRun ==
    /\ pc = "idle"
    /\ \E cmd \in DOMAIN lists, rc \in BOOLEAN, lines \in StdinArgs,
          norm \in BOOLEAN, w \in Worlds(StdoutBytes, StderrBytes) :
            CallRunIn(cmd, rc, lines, norm, w)
    /\ UNCHANGED commVars

\* command.append("x") on one of the caller's lists
AppendArg ==
    /\ \E id \in DOMAIN lists :
          /\ Len(lists[id]) < MaxArgs
          /\ lists' = [lists EXCEPT ![id] = Append(@, "x")]
    /\ UNCHANGED <<result, raised, first, child, normalize_carriage_return, pc>>
    /\ UNCHANGED <<envVars, stripVars, commVars>>

\* environment["MY_VAR"] = "2" on the caller's dict
MutateEnvironment ==
    /\ user_environment # NoDict
    /\ Get(user_environment, "MY_VAR") # "2"
    /\ user_environment' = Put(user_environment, "MY_VAR", "2")
    /\ UNCHANGED <<environ, platform, remove_colors, exec_env>>
    /\ UNCHANGED <<runVars, stripVars, commVars>>

\* the caller drops the result (or the exception) of the last call
Discard ==
    /\ pc \in {"returned", "raised"}
    /\ pc' = "idle"
    /\ result' = NoResult
    /\ raised' = None
    /\ first' = NoReads
    /\ child' = NoChild
    /\ remove_colors' = FALSE
    /\ normalize_carriage_return' = FALSE
    /\ UNCHANGED <<lists, environ, platform, user_environment, exec_env>>
    /\ UNCHANGED <<stripVars, commVars>>

Init ==
    /\ environ = [k \in {"PATH", "NO_COLOR"} |-> CallerValue(k)]
    /\ platform \in {"win32", "linux"}
    /\ user_environment \in {NoDict, [k \in {"MY_VAR"} |-> "1"]}
    /\ remove_colors = FALSE
    /\ exec_env = NotBuilt
    /\ StripIdle
    /\ RunIdle
    /\ CommIdle

Next == CallRun \/ AppendArg \/ MutateEnvironment \/ Discard

Spec == Init /\ [][Next]_vars

\* C3: run raises, and returns no CommandResult, exactly when the process
\* cannot be spawned or its output cannot be decoded; otherwise it returns a
\* CommandResult whose return_code is the child's exit code and which is
\* successful if and only if that code is 0.
C3_ErrorOrResult ==
    pc # "idle" =>
        LET failed == \/ ~child.spawned
                      \/ Utf8Decode(child.out) = DecodeFailed
                      \/ Utf8Decode(child.err) = DecodeFailed
        IN  /\ pc = "raised" <=> failed
            /\ pc = "raised" => result = NoResult /\ raised # None
            /\ pc = "returned" =>
                  /\ result # NoResult /\ raised = None
                  /\ return_code(result) = child.exit_code
                  /\ is_successful(result) <=> child.exit_code = 0
                  /\ successful(result) <=> child.exit_code = 0

\* a spawned child exited with a nonzero code and run returned a result
C3_Witness ==
    /\ pc = "returned"
    /\ child.spawned
    /\ child.exit_code = -9
    /\ ~is_successful(result)

\* C4: the execution time stored in the result is the whole elapsed time, in
\* microseconds, between the two clock readings.
C4_WholeElapsed ==
    pc = "returned" => exec_time_us(result) = child.end_time - child.start_time

\* C8: once run has returned, every accessor keeps returning what it returned
\* at first, whatever the caller does next.
C8_ResultNeverChanges ==
    pc = "returned" => Reads(result, lists) = first

\* ------------------------------------------------------------------------
\* Specification of the text post-processing of run: the child's output is
\* assembled from pieces (carriage return, line feed, a plain character, a
\* colour sequence) shared out between stdout and stderr.
MaxPieces == 3

TextPieces == { <<CR>>, <<LF>>, PlainText, ResetSeq(UNIX_ESC_CHAR) }

RECURSIVE OutputPairs(_)
OutputPairs(n) ==
    IF n = 0 THEN { << <<>>, <<>> >> }
    ELSE LET prev == OutputPairs(n - 1)
         IN  prev
             \cup {<<p[1] \o x, p[2]>> : p \in prev, x \in TextPieces}
             \cup {<<p[1], p[2] \o x>> : p \in prev, x \in TextPieces}

InitText ==
    /\ EnvIdle
    /\ StripIdle
    /\ RunIdle
    /\ CommIdle

CallRunOnText ==
    /\ pc = "idle"
    /\ \E p \in OutputPairs(MaxPieces), rc \in BOOLEAN, norm \in BOOLEAN :
          CallRunIn(1, rc, NoStdin, norm,
                    [out |-> Utf8Encode(p[1]), err |-> Utf8Encode(p[2]),
                     exit_code |-> 0, start_time |-> 0, end_time |-> 1])
    /\ UNCHANGED commVars

NextText == CallRunOnText

SpecText == InitText /\ [][NextText]_vars

\* the text without every carriage return that a line feed follows
RECURSIVE DropCRBeforeLF(_)
DropCRBeforeLF(t) ==
    IF t = <<>> THEN <<>>
    ELSE IF Len(t) >= 2 /\ t[1] = CR /\ t[2] = LF THEN DropCRBeforeLF(Tail(t))
    ELSE <<t[1]>> \o DropCRBeforeLF(Tail(t))

\* C10 (as stated): with normalize_carriage_return the returned stdout and
\* stderr contain no "\r\n" pair, whatever the captured text and whatever
\* remove_colors; text with no "\r\n" and no colour sequence is unchanged.
C10_NoCRLFAsClaimed ==
    (pc = "returned" /\ normalize_carriage_return) =>
        /\ ~Contains(stdout(result), <<CR, LF>>)
        /\ ~Contains(stderr(result), <<CR, LF>>)
        /\ \A s \in {"out", "err"} :
              LET t == Utf8Decode(child[s])
                  r == IF s = "out" THEN stdout(result) ELSE stderr(result)
              IN  (~Contains(t, <<CR, LF>>) /\ ~HasEnumeratedSeq(t)) => r = t

\* C10 (amended): with normalize_carriage_return every carriage return that
\* a line feed follows is removed from the captured text, before any colour
\* stripping; the returned text contains no "\r\n" pair when the captured
\* text has no "\r\r\n" and colour stripping removes nothing; text with no
\* "\r\n" and no colour sequence is unchanged.
C10_Normalized ==
    (pc = "returned" /\ normalize_carriage_return) =>
        \A s \in {"out", "err"} :
            LET t == Utf8Decode(child[s])
                r == IF s = "out" THEN stdout(result) ELSE stderr(result)
                clean == ~remove_colors \/ ~HasEnumeratedSeq(t)
            IN  /\ r = StripIf(DropCRBeforeLF(t), remove_colors)
                /\ (~Contains(t, <<CR, CR, LF>>) /\ clean) =>
                      ~Contains(r, <<CR, LF>>)
                /\ (~Contains(t, <<CR, LF>>) /\ ~HasEnumeratedSeq(t)) => r = t

\* stdout held a "\r\n" and a colour sequence; normalization and colour
\* stripping were both asked for
C10_Witness ==
    /\ pc = "returned"
    /\ normalize_carriage_return
    /\ remove_colors
    /\ child.out = <<CR, LF>> \o ResetSeq(UNIX_ESC_CHAR)
    /\ stdout(result) = <<LF>>

\* ------------------------------------------------------------------------
\* Specification of the CommandResult classes: a result is constructed with
\* some measured duration, then its accessors are read in any order; `first`
\* keeps what each accessor returned the first time it was read.
MaxMillis == 2

Durations ==
    {a * 1000000 + b * 1000 + c :
        a \in 0..MaxMillis, b \in {0, 1, 999}, c \in {0, 1, 999}}

ConstructModelResult ==
    /\ pc = "idle"
    /\ \E d \in Durations, rc \in {0, 1} :
          result' = ModelCommandResult(1, rc, <<>>, <<>>, d)
    /\ pc' = "model"
    /\ UNCHANGED <<lists, raised, first, child, normalize_carriage_return>>
    /\ UNCHANGED <<envVars, stripVars, commVars>>

ConstructResult ==
    /\ pc = "idle"
    /\ \E d \in Durations, rc \in {0, 1} :
          result' = CommandResult(1, rc, <<>>, <<>>, d)
    /\ pc' = "init"
    /\ UNCHANGED <<lists, raised, first, child, normalize_carriage_return>>
    /\ UNCHANGED <<envVars, stripVars, commVars>>

Accessor(r, kind, a) ==
    IF kind = "model"
    THEN CASE a = "exec_time_ns" -> model_exec_time_ns(r)
           [] a = "exec_time_us" -> model_exec_time_us(r)
           [] a = "exec_time_ms" -> model_exec_time_ms(r)
    ELSE CASE a = "exec_time_us" -> exec_time_us(r)
           [] a = "exec_time_ms" -> exec_time_ms(r)

AccessorNames(kind) ==
    IF kind = "model" THEN {"exec_time_ns", "exec_time_us", "exec_time_ms"}
    ELSE {"exec_time_us", "exec_time_ms"}

ReadAccessor ==
    /\ pc \in {"model", "init"}
    /\ \E a \in AccessorNames(pc) \ DOMAIN first :
          first' = Put(first, a, Accessor(result, pc, a))
    /\ UNCHANGED <<lists, result, raised, child, normalize_carriage_return, pc>>
    /\ UNCHANGED <<envVars, stripVars, commVars>>

InitResult ==
    /\ EnvIdle
    /\ StripIdle
    /\ RunIdle
    /\ CommIdle

NextResult == ConstructModelResult \/ ConstructResult \/ ReadAccessor

SpecResult == InitResult /\ [][NextResult]_vars

\* C9: the unit accessors agree under integer division, us = ns // 1000 and
\* ms = us // 1000 (hence ms = ns // 1000000), and what an accessor returned
\* when first read is what it still returns after the others were read.
C9_UnitsAgree ==
    /\ pc = "model" =>
          /\ model_exec_time_us(result) = model_exec_time_ns(result) \div 1000
          /\ model_exec_time_ms(result) = model_exec_time_us(result) \div 1000
          /\ model_exec_time_ms(result) = model_exec_time_ns(result) \div 1000000
    /\ pc = "init" =>
          exec_time_ms(result) = exec_time_us(result) \div 1000
    /\ pc \in {"model", "init"} =>
          \A a \in DOMAIN first : first[a] = Accessor(result, pc, a)

\* a duration of 2,999,999 ns was stored and all three accessors were read
C9_Witness ==
    /\ pc = "model"
    /\ model_exec_time_ns(result) = 2999999
    /\ DOMAIN first = {"exec_time_ns", "exec_time_us", "exec_time_ms"}
    /\ first["exec_time_us"] = 2999
    /\ first["exec_time_ms"] = 2

\* ------------------------------------------------------------------------
\* Specification of run at the level of the pipes: Popen starts the child
\* with three pipes, communicate writes `input` to the child's stdin while it
\* reads whatever the child has written to stdout and stderr, and waits.
\* The child runs its program one instruction at a time: "o" writes a byte
\* to stdout, "e" a byte to stderr, "i" reads a byte from stdin (or observes
\* end-of-input); a write blocks while the pipe is full, a read blocks while
\* the pipe is empty and its other end is open.
PipeCapacity == 2
MaxProgLen == 3

RECURSIVE Programs(_)
Programs(n) ==
    IF n = 0 THEN { <<>> }
    ELSE LET prev == Programs(n - 1)
         IN  prev \cup {Append(q, op) : q \in prev, op \in {"o", "e", "i"}}

CommStdinArgs ==
    { NoStdin, <<>>, << <<>> >>, <<PlainText, <<>>>>, << <<233>> >> }

\* the child's own exit code: nonzero when a read hit end-of-input
ChildExitCode == IF child_eof THEN 1 ELSE 0

\* (a communicate that reads stdout to its end before it reads stderr)
CanRead_StdoutFirst(s) ==
    s \in registered /\ (s = "err" => "out" \notin registered)

\* communicate still reads the stream
CanRead(s) == s \in registered

InitComm ==
    /\ EnvIdle
    /\ StripIdle
    /\ RunIdle
    /\ stdin \in CommStdinArgs
    /\ prog \in Programs(MaxProgLen)
    /\ cpc = "start"
    /\ input_offset = 0
    /\ stdin_open = FALSE
    /\ registered = {}
    /\ captured = NoBytes
    /\ returncode = <<>>
    /\ pipes = NoBytes
    /\ cpos = 1
    /\ child_state = "none"
    /\ child_read = <<>>
    /\ child_eof = FALSE

\* subprocess.Popen(..., stdout=PIPE, stderr=PIPE, stdin=PIPE)
Popen ==
    /\ cpc = "start"
    /\ cpc' = "popen"
    /\ child_state' = "running"
    /\ stdin_open' = TRUE
    /\ UNCHANGED <<stdin, input_offset, registered, captured, returncode,
                   pipes, prog, cpos, child_read, child_eof>>
    /\ UNCHANGED <<envVars, stripVars, runVars>>

\* communicate(input), before its loop: with nothing to write, stdin is
\* closed at once; both outputs are registered for reading
CommunicateBegin ==
    /\ cpc = "popen"
    /\ cpc' = "select"
    /\ stdin_open' = (StdinInput(stdin) # <<>>)
    /\ registered' = {"out", "err"}
    /\ UNCHANGED <<stdin, input_offset, captured, returncode, pipes, prog,
                   cpos, child_state, child_read, child_eof>>
    /\ UNCHANGED <<envVars, stripVars, runVars>>

\* communicate's loop, stdin ready: write the next byte of input, close
\* stdin after the last one; a child that has exited gives BrokenPipeError,
\* which closes stdin too
CommunicateWrite ==
    /\ cpc = "select"
    /\ stdin_open
    /\ IF child_state = "exited"
       THEN /\ stdin_open' = FALSE
            /\ UNCHANGED <<input_offset, pipes>>
       ELSE /\ Len(pipes["in"]) < PipeCapacity
            /\ pipes' = [pipes EXCEPT
                 !["in"] = Append(@, StdinInput(stdin)[input_offset + 1])]
            /\ input_offset' = input_offset + 1
            /\ stdin_open' = (input_offset + 1 < Len(StdinInput(stdin)))
    /\ UNCHANGED <<stdin, cpc, registered, captured, returncode, prog, cpos,
                   child_state, child_read, child_eof>>
    /\ UNCHANGED <<envVars, stripVars, runVars>>

\* communicate's loop, an output ready: read what the pipe holds; at
\* end-of-file (empty pipe, child gone) stop reading the stream
CommunicateRead ==
    /\ cpc = "select"
    /\ \E s \in {"out", "err"} :
          /\ CanRead(s)
          /\ \/ /\ pipes[s] # <<>>
                /\ captured' = [captured EXCEPT ![s] = @ \o pipes[s]]
                /\ pipes' = [pipes EXCEPT ![s] = <<>>]
                /\ UNCHANGED registered
             \/ /\ pipes[s] = <<>>
                /\ child_state = "exited"
                /\ registered' = registered \ {s}
                /\ UNCHANGED <<captured, pipes>>
    /\ UNCHANGED <<stdin, cpc, input_offset, stdin_open, returncode, prog,
                   cpos, child_state, child_read, child_eof>>
    /\ UNCHANGED <<envVars, stripVars, runVars>>

\* communicate, after its loop: nothing is left to write or read; wait()
\* returns once the child has exited and sets returncode
CommunicateWait ==
    /\ cpc = "select"
    /\ ~stdin_open
    /\ registered = {}
    /\ child_state = "exited"
    /\ returncode' = <<ChildExitCode>>
    /\ cpc' = "waited"
    /\ UNCHANGED <<stdin, input_offset, stdin_open, registered, captured,
                   pipes, prog, cpos, child_state, child_read, child_eof>>
    /\ UNCHANGED <<envVars, stripVars, runVars>>

\* the rest of run: decode, normalize, time, strip, build the CommandResult
Return ==
    /\ cpc = "waited"
    /\ cpc' = "done"
    /\ CallRunIn(1, FALSE, stdin, FALSE,
                 [out |-> captured["out"], err |-> captured["err"],
                  exit_code |-> returncode[1], start_time |-> 0, end_time |-> 1])
    /\ UNCHANGED <<stdin, input_offset, stdin_open, registered, captured,
                   returncode, pipes, prog, cpos, child_state, child_read,
                   child_eof>>

\* one instruction of the child
ChildStep ==
    /\ child_state = "running"
    /\ cpos <= Len(prog)
    /\ \/ /\ prog[cpos] \in {"o", "e"}
          /\ LET s == IF prog[cpos] = "o" THEN "out" ELSE "err"
             IN  /\ Len(pipes[s]) < PipeCapacity
                 /\ pipes' = [pipes EXCEPT ![s] = Append(@, PlainText[1])]
          /\ UNCHANGED <<child_read, child_eof>>
       \/ /\ prog[cpos] = "i"
          /\ pipes["in"] # <<>>
          /\ child_read' = Append(child_read, Head(pipes["in"]))
          /\ pipes' = [pipes EXCEPT !["in"] = Tail(@)]
          /\ UNCHANGED child_eof
       \/ /\ prog[cpos] = "i"
          /\ pipes["in"] = <<>>
          /\ ~stdin_open
          /\ child_eof' = TRUE
          /\ UNCHANGED <<child_read, pipes>>
    /\ cpos' = cpos + 1
    /\ UNCHANGED <<stdin, cpc, input_offset, stdin_open, registered, captured,
                   returncode, prog, child_state>>
    /\ UNCHANGED <<envVars, stripVars, runVars>>

\* the child exits after its last instruction; its pipe ends are closed
ChildExit ==
    /\ child_state = "running"
    /\ cpos > Len(prog)
    /\ child_state' = "exited"
    /\ pipes' = [pipes EXCEPT !["in"] = <<>>]
    /\ UNCHANGED <<stdin, cpc, input_offset, stdin_open, registered, captured,
                   returncode, prog, cpos, child_read, child_eof>>
    /\ UNCHANGED <<envVars, stripVars, runVars>>

Engine == Popen \/ CommunicateBegin \/ CommunicateWrite \/ CommunicateRead
              \/ CommunicateWait \/ Return
Child == ChildStep \/ ChildExit

NextComm == Popen \/ CommunicateBegin \/ CommunicateWrite \/ CommunicateRead
                  \/ CommunicateWait \/ Return \/ ChildStep \/ ChildExit

\* The engine keeps running its loop and the operating system keeps
\* scheduling the child.
SpecComm == InitComm /\ [][NextComm]_vars /\ WF_vars(Engine) /\ WF_vars(Child)

\* the bytes of the lines, each line but the last followed by a line feed
RECURSIVE LinesAsBytes(_)
LinesAsBytes(lines) ==
    IF lines = NoStdin \/ lines = <<>> THEN <<>>
    ELSE Utf8Encode(Head(lines))
         \o (IF Len(lines) > 1 THEN <<LF>> \o LinesAsBytes(Tail(lines))
             ELSE <<>>)

IsPrefix(a, b) == Len(a) <= Len(b) /\ SubSeq(b, 1, Len(a)) = a

\* what the child's stdin has received so far: what the child has read, then
\* what is still in the pipe
C5_Delivered ==
    /\ IsPrefix(child_read \o pipes["in"], LinesAsBytes(stdin))
    /\ child_eof => child_read = LinesAsBytes(stdin)
    /\ (LinesAsBytes(stdin) = <<>> /\ cpc \notin {"start", "popen"}) =>
          ~stdin_open /\ child_read = <<>>
    /\ (cpc = "done" /\ LinesAsBytes(stdin) = <<>>
            /\ \E i \in 1..Len(prog) : prog[i] = "i") => child_eof

\* C5: the child's stdin receives exactly the bytes of the lines joined with
\* "\n", then end-of-input; with no stdin (None or an empty list) it receives
\* no byte and end-of-input at once, so a child that reads observes
\* end-of-input, and run eventually returns with the child's own exit code.
C5_StdinThenEOF ==
    /\ []C5_Delivered
    /\ (cpc = "popen") ~>
          (cpc = "done" /\ pc = "returned"
              /\ return_code(result) = ChildExitCode)

\* no stdin was given, the child wrote a prompt and read: it observed
\* end-of-input, and run returned with the child's exit code, 1
C5_Witness ==
    /\ cpc = "done"
    /\ pc = "returned"
    /\ stdin = NoStdin
    /\ prog = <<"o", "i">>
    /\ child_eof
    /\ return_code(result) = 1
    /\ stdout(result) = PlainText

ChildBlockedOn(s) ==
    /\ child_state = "running"
    /\ cpos <= Len(prog)
    /\ prog[cpos] = (IF s = "out" THEN "o" ELSE "e")
    /\ Len(pipes[s]) = PipeCapacity

\* C6: no pipe-buffer deadlock: whenever the child is blocked on a full
\* output pipe, communicate is reading that pipe, whatever it is doing with
\* the other streams; and run eventually returns.
C6_NoPipeDeadlock ==
    /\ [](\A s \in {"out", "err"} :
            (cpc = "select" /\ ChildBlockedOn(s)) => CanRead(s))
    /\ (cpc = "popen") ~> (cpc = "done")

\* the child is blocked on a full stderr pipe while communicate still has
\* input to write and stdout to read
C6_Witness ==
    /\ cpc = "select"
    /\ ChildBlockedOn("err")
    /\ stdin_open
    /\ input_offset < Len(StdinInput(stdin))
    /\ "out" \in registered

====
